---------------------------- MODULE Spec2Model ----------------------------
(***************************************************************************)
(* Model of streamlit_app.py: one render of the dashboard script.  The     *)
(* script runs top to bottom on every page view: it fetches the account,   *)
(* the portfolio history, the positions and the activities from the        *)
(* brokerage gateway, one blocking GET after the other, and renders a      *)
(* section of the page from each response.  An uncaught exception ends the *)
(* render at the statement that raised it.                                 *)
(*                                                                         *)
(* Numbers: the script computes in binary floating point.  The model       *)
(* computes in exact arithmetic: integers, rationals [num, den] for the    *)
(* quotients, and for the risk ratio its sign and its square.  NaN is a    *)
(* value of its own.  Transport strings ("2500") are sequences of          *)
(* characters that Float parses.                                           *)
(***************************************************************************)
EXTENDS Integers, Sequences, FiniteSets, TLC

(***************************************************************************)
(* Bounds of the model.                                                    *)
(***************************************************************************)
MaxRenders == 2
MaxDays == 2
MaxSeries == 3
MaxPositions == 2
MaxActivities == 3

(***************************************************************************)
(* Program constants (src/streamlit_app.py:27-28).  START_DATE is the      *)
(* proleptic Gregorian ordinal of date(2025, 4, 28).                       *)
(***************************************************************************)
STARTING_PORTFOLIO_VALUE == 2000
START_DATE == 739369

(***************************************************************************)
(* Sequence helpers.                                                       *)
(***************************************************************************)
SeqsUpTo(S, n) == UNION {[1..k -> S] : k \in 0..n}

RECURSIVE SumSeq(_)
SumSeq(s) == IF s = <<>> THEN 0 ELSE Head(s) + SumSeq(Tail(s))

RECURSIVE SumSq(_)
SumSq(s) == IF s = <<>> THEN 0 ELSE Head(s) * Head(s) + SumSq(Tail(s))

(***************************************************************************)
(* float(str): an optional minus sign and decimal digits.                  *)
(***************************************************************************)
Digit(c) ==
  CASE c = "0" -> 0 [] c = "1" -> 1 [] c = "2" -> 2 [] c = "3" -> 3
    [] c = "4" -> 4 [] c = "5" -> 5 [] c = "6" -> 6 [] c = "7" -> 7
    [] c = "8" -> 8 [] c = "9" -> 9

RECURSIVE ParseDigits(_, _)
ParseDigits(s, acc) ==
  IF s = <<>> THEN acc ELSE ParseDigits(Tail(s), 10 * acc + Digit(Head(s)))

Float(s) ==
  IF Head(s) = "-" THEN 0 - ParseDigits(Tail(s), 0) ELSE ParseDigits(s, 0)

(***************************************************************************)
(* str(int), as the gateway and astype(str) write a whole number.          *)
(***************************************************************************)
DigitChar(d) ==
  CASE d = 0 -> "0" [] d = 1 -> "1" [] d = 2 -> "2" [] d = 3 -> "3"
    [] d = 4 -> "4" [] d = 5 -> "5" [] d = 6 -> "6" [] d = 7 -> "7"
    [] d = 8 -> "8" [] d = 9 -> "9"

RECURSIVE StrNat(_)
StrNat(n) ==
  IF n < 10 THEN <<DigitChar(n)>>
  ELSE Append(StrNat(n \div 10), DigitChar(n % 10))

Str(n) == IF n < 0 THEN <<"-">> \o StrNat(0 - n) ELSE StrNat(n)

(***************************************************************************)
(* Exact quotients.  Python's x / y with y # 0.                            *)
(***************************************************************************)
Abs(x) == IF x < 0 THEN 0 - x ELSE x

RECURSIVE GCD(_, _)
GCD(a, b) == IF b = 0 THEN a ELSE GCD(b, a % b)

Rat(n, d) ==
  LET g == GCD(Abs(n), Abs(d))
      s == IF d < 0 THEN 0 - 1 ELSE 1
  IN  [num |-> (s * n) \div g, den |-> (s * d) \div g]

Zero == [num |-> 0, den |-> 1]

RatSign(q) == IF q.num > 0 THEN 1 ELSE IF q.num < 0 THEN 0 - 1 ELSE 0

\* q > a/b for b > 0
RatGt(q, a, b) == q.num * b > a * q.den

(***************************************************************************)
(* dict.get(key, default) followed by float(): account fields.             *)
(***************************************************************************)
GetFloat(m, k) == IF k \in DOMAIN m THEN Float(m[k]) ELSE 0

(***************************************************************************)
(* DAYS_RUNNING = (date.today() - START_DATE).days                         *)
(***************************************************************************)
DAYS_RUNNING(today) == today - START_DATE

(***************************************************************************)
(* Account summary, lines 84-100: the derived metrics and the colours of   *)
(* the tiles, from the parsed account map and the elapsed days.            *)
(***************************************************************************)
value_color(latest_equity) ==
  IF latest_equity > STARTING_PORTFOLIO_VALUE THEN "green" ELSE "red"

pl_color(pl_dollar) ==
  IF pl_dollar > 0 THEN "green" ELSE IF pl_dollar < 0 THEN "red" ELSE "black"

avg_color(avg_pl_dollar) ==
  IF RatSign(avg_pl_dollar) > 0 THEN "green"
  ELSE IF RatSign(avg_pl_dollar) < 0 THEN "red" ELSE "black"

avg_pl(pl, D) == IF D # 0 THEN Rat(pl.num, pl.den * D) ELSE Zero

AccountSummary(account_data, D) ==
  LET latest_equity == GetFloat(account_data, "portfolio_value")
      pl_dollar == latest_equity - STARTING_PORTFOLIO_VALUE
      pl_percent == Rat((latest_equity - STARTING_PORTFOLIO_VALUE) * 100,
                        STARTING_PORTFOLIO_VALUE)
      avg_pl_dollar == avg_pl(Rat(pl_dollar, 1), D)
      avg_pl_percent == avg_pl(pl_percent, D)
  IN  [kind |-> "tiles",
       latest_equity |-> latest_equity,
       pl_dollar |-> pl_dollar,
       pl_percent |-> pl_percent,
       buying_power |-> GetFloat(account_data, "buying_power"),
       margin_used |-> GetFloat(account_data, "initial_margin"),
       margin_req |-> GetFloat(account_data, "maintenance_margin"),
       avg_pl_dollar |-> avg_pl_dollar,
       avg_pl_percent |-> avg_pl_percent,
       value_color |-> value_color(latest_equity),
       pl_color |-> pl_color(pl_dollar),
       avg_color |-> avg_color(avg_pl_dollar)]

(***************************************************************************)
(* A gateway response as requests.get and response.json() see it.          *)
(* transport = "error": requests.get raises.  jtype is what json() makes   *)
(* of the body: "nonjson" (json() raises), "map", "list" or "null".  The   *)
(* script never reads the HTTP status.                                     *)
(***************************************************************************)
Resp(transport, status, jtype, map, list) ==
  [transport |-> transport, status |-> status, jtype |-> jtype,
   map |-> map, list |-> list]

TransportError == Resp("error", 0, "nonjson", <<>>, <<>>)
NonJson(status) == Resp("ok", status, "nonjson", <<>>, <<>>)
JsonMap(status, m) == Resp("ok", status, "map", m, <<>>)
JsonList(status, l) == Resp("ok", status, "list", <<>>, l)
JsonNull(status) == Resp("ok", status, "null", <<>>, <<>>)

\* The body of the gateway's error answers: {"message": ...}.
ErrorMap == [k \in {"message"} |-> <<"e", "r", "r">>]

(***************************************************************************)
(* pandas.DataFrame: its columns and its rows.  pd.DataFrame() has         *)
(* neither.                                                                *)
(***************************************************************************)
DataFrame(columns, rows) == [columns |-> columns, rows |-> rows]

EmptyDataFrame == DataFrame({}, <<>>)

DfEmpty(df) == df.columns = {} \/ df.rows = <<>>

HistoryColumns == {"Time", "P/L %", "P/L $", "Equity"}

(***************************************************************************)
(* fetch_portfolio_history, lines 41-65.  The result: the exception that   *)
(* left the function ("none" when it returned), the message it showed and  *)
(* the frame it returned.                                                  *)
(***************************************************************************)
Fetched(raised, msg, df) == [raised |-> raised, msg |-> msg, df |-> df]

\* datetime.fromtimestamp(ts, tz=ZoneInfo("America/New_York")): the same
\* instant, carrying the exchange's zone.
FromTimestamp(ts) == [epoch |-> ts, tz |-> "America/New_York"]

\* The guard of line 55 without its second operand.
TimestampFalsy_key_only(data) == "timestamp" \notin DOMAIN data

TimestampFalsy(data) ==
  \/ "timestamp" \notin DOMAIN data
  \/ data["timestamp"] = <<>>

HistoryFrame(data) ==
  IF {"profit_loss_pct", "profit_loss", "equity"} \ DOMAIN data # {}
  THEN Fetched("KeyError", "none", EmptyDataFrame)
  ELSE IF \E k \in {"profit_loss_pct", "profit_loss", "equity"} :
            Len(data[k]) # Len(data["timestamp"])
  THEN Fetched("ValueError", "none", EmptyDataFrame)
  ELSE Fetched("none", "none",
         DataFrame(HistoryColumns,
           [i \in 1..Len(data["timestamp"]) |->
              [Time |-> FromTimestamp(data["timestamp"][i]),
               PL_pct |-> data["profit_loss_pct"][i] * 100,
               PL_usd |-> data["profit_loss"][i],
               Equity |-> data["equity"][i]]]))

fetch_portfolio_history(response) ==
  IF response.transport = "error"
  THEN Fetched("ConnectionError", "none", EmptyDataFrame)
  ELSE IF response.jtype = "nonjson"
  THEN Fetched("none", "error", EmptyDataFrame)
  ELSE IF response.jtype = "null"
  THEN Fetched("TypeError", "none", EmptyDataFrame)
  ELSE IF response.jtype = "list"
  THEN Fetched("none", "warning", EmptyDataFrame)
  ELSE IF TimestampFalsy(response.map)
  THEN Fetched("none", "warning", EmptyDataFrame)
  ELSE HistoryFrame(response.map)

(***************************************************************************)
(* The risk ratio, lines 209-220.  A ratio is NaN, or a number given by    *)
(* its sign and its square (mean^2 / variance).  Series.std() is the       *)
(* sample standard deviation (ddof = 1): NaN for a single entry.           *)
(***************************************************************************)
Ratio(nan, sign, sq) == [nan |-> nan, sign |-> sign, sq |-> sq]

NaN == Ratio(TRUE, 0, Zero)
RatioZero == Ratio(FALSE, 0, Zero)

NonZero(x) == x # 0

\* returns[returns != 0]
FilterNonZero(returns) == SelectSeq(returns, NonZero)

\* n * (n - 1) * variance, n >= 2
ScaledVar(s) == Len(s) * SumSq(s) - SumSeq(s) * SumSeq(s)

\* average_daily_return / std_dev_return if std_dev_return != 0 else 0
MeanOverStd(s) ==
  LET n == Len(s)
      S == SumSeq(s)
  IN  IF n < 2 THEN NaN
      ELSE IF ScaledVar(s) # 0
      THEN Ratio(FALSE, RatSign(Rat(S, n)),
                 Rat(S * S * (n - 1), n * ScaledVar(s)))
      ELSE RatioZero

RatioGt(r, a, b) == ~r.nan /\ r.sign > 0 /\ RatGt(r.sq, a, b)

sharpe_color(r) ==
  IF RatioGt(r, 1, 1) THEN "#00ffcc"
  ELSE IF RatioGt(r, 1, 4) THEN "#ffaa00" ELSE "#ff6666"

Tile(raised, kind, ratio, color) ==
  [raised |-> raised, kind |-> kind, ratio |-> ratio, color |-> color]

\* Lines 209-229.  Line 219 evaluates average_daily_return and
\* std_dev_return again, outside the branch that binds them.
SharpeTile(history_df) ==
  IF DfEmpty(history_df)
  THEN Tile("none", "warning", RatioZero, "none")
  ELSE LET returns == FilterNonZero([i \in 1..Len(history_df.rows) |->
                                       history_df.rows[i].PL_pct])
       IN  IF returns = <<>>
           THEN Tile("NameError", "unset", RatioZero, "none")
           ELSE Tile("none", "tile", MeanOverStd(returns),
                     sharpe_color(MeanOverStd(returns)))

(***************************************************************************)
(* The history table and chart, lines 162-206.                             *)
(***************************************************************************)
Meaningful(row) == ~(row.PL_pct = 0 /\ row.PL_usd = 0 /\ row.Equity = 0)

cleaned_history(history_df) == SelectSeq(history_df.rows, Meaningful)

Metric(row, selected_metric) ==
  CASE selected_metric = "Equity" -> row.Equity
    [] selected_metric = "P/L $" -> row.PL_usd
    [] selected_metric = "P/L %" -> row.PL_pct

SeqMin(s) == CHOOSE x \in {s[i] : i \in DOMAIN s} :
               \A y \in {s[i] : i \in DOMAIN s} : x <= y
SeqMax(s) == CHOOSE x \in {s[i] : i \in DOMAIN s} :
               \A y \in {s[i] : i \in DOMAIN s} : x >= y

Chart(kind, rows, metric, lo, hi) ==
  [kind |-> kind, rows |-> rows, metric |-> metric, lo |-> lo, hi |-> hi]

HistoryChart(history_df, selected_metric) ==
  LET cleaned == cleaned_history(history_df)
      ys == [i \in 1..Len(cleaned) |-> Metric(cleaned[i], selected_metric)]
      y_range == SeqMax(ys) - SeqMin(ys)
      padding == IF y_range > 0 THEN Rat(y_range, 10) ELSE Rat(10, 1)
  IN  IF cleaned = <<>>
      THEN Chart("info", <<>>, "none", Zero, Zero)
      ELSE Chart("chart", cleaned, selected_metric,
                 Rat(SeqMin(ys) * padding.den - padding.num, padding.den),
                 Rat(SeqMax(ys) * padding.den + padding.num, padding.den))

(***************************************************************************)
(* fetch_account_info, fetch_positions, fetch_account_activities, lines    *)
(* 69-80: requests.get, then response.json(), nothing caught.              *)
(***************************************************************************)
FetchRaises(response) ==
  IF response.transport = "error" THEN "ConnectionError"
  ELSE IF response.jtype = "nonjson" THEN "JSONDecodeError"
  ELSE "none"

(***************************************************************************)
(* The positions table, lines 249-302.                                     *)
(***************************************************************************)
highlight_color(val) ==
  IF val > 0 THEN "color: green" ELSE IF val < 0 THEN "color: red" ELSE ""

\* The shaping with line 265 left out.
ShapePosition_intraday_unscaled(p) ==
  [Symbol |-> p.symbol,
   Qty |-> Float(p.qty),
   Side |-> p.side,
   Entry |-> Float(p.avg_entry_price),
   Cur |-> Float(p.current_price),
   MarketVal |-> Float(p.market_value),
   CostBasis |-> Float(p.cost_basis),
   PL_usd |-> Float(p.unrealized_pl),
   PL_pct |-> Float(p.unrealized_plpc) * 100,
   Intraday_usd |-> Float(p.unrealized_intraday_pl),
   Intraday_pct |-> Float(p.unrealized_intraday_plpc),
   LastDay |-> Float(p.lastday_price),
   ChgToday |-> Float(p.change_today) * 100]

\* astype(float), the three *= 100, the column selection and renaming.
ShapePosition(p) ==
  [Symbol |-> p.symbol,
   Qty |-> Float(p.qty),
   Side |-> p.side,
   Entry |-> Float(p.avg_entry_price),
   Cur |-> Float(p.current_price),
   MarketVal |-> Float(p.market_value),
   CostBasis |-> Float(p.cost_basis),
   PL_usd |-> Float(p.unrealized_pl),
   PL_pct |-> Float(p.unrealized_plpc) * 100,
   Intraday_usd |-> Float(p.unrealized_intraday_pl),
   Intraday_pct |-> Float(p.unrealized_intraday_plpc) * 100,
   LastDay |-> Float(p.lastday_price),
   ChgToday |-> Float(p.change_today) * 100]

PositionStyle(row) ==
  [PL_usd |-> highlight_color(row.PL_usd),
   PL_pct |-> highlight_color(row.PL_pct),
   Intraday_usd |-> highlight_color(row.Intraday_usd),
   Intraday_pct |-> highlight_color(row.Intraday_pct),
   ChgToday |-> highlight_color(row.ChgToday)]

Table(kind, rows, styles) == [kind |-> kind, rows |-> rows, styles |-> styles]

\* isinstance(positions_data, list) and positions_data
PositionsTable(positions_data) ==
  IF positions_data.jtype = "list" /\ positions_data.list # <<>>
  THEN LET rows == [i \in 1..Len(positions_data.list) |->
                      ShapePosition(positions_data.list[i])]
       IN  Table("table", rows,
                 [i \in 1..Len(rows) |-> PositionStyle(rows[i])])
  ELSE Table("warning", <<>>, <<>>)

(***************************************************************************)
(* The activities table, lines 309-360.                                    *)
(***************************************************************************)
\* JSON null in a column (pandas None / NaN).
NULL == "<null>"

\* pd.to_datetime of the transport timestamp [date, time]: an instant.
ToDatetime(ts) == ts.date * 86400 + ts.time

\* Series.dt.date.astype(str)
DateOf(t) == Str(t \div 86400)

\* pd.to_numeric(..., errors="coerce")
ToNumeric(x) ==
  IF x = <<>> THEN [nan |-> TRUE, v |-> 0] ELSE [nan |-> FALSE, v |-> Float(x)]

ShapeActivity(a) ==
  [Type |-> a.activity_type,
   Symbol |-> a.symbol,
   Qty |-> ToNumeric(a.qty),
   Price |-> ToNumeric(a.price),
   Side |-> a.side,
   Time |-> ToDatetime(a.transaction_time)]

\* ["All"] + sorted(column.dropna().unique())
TypeOptions(rows) == {"All"} \cup ({rows[i].Type : i \in DOMAIN rows} \ {NULL})
SymbolOptions(rows) == {"All"} \cup ({rows[i].Symbol : i \in DOMAIN rows} \ {NULL})
SideOptions(rows) == {"All"} \cup ({rows[i].Side : i \in DOMAIN rows} \ {NULL})

\* The dates are strings of characters, and so is their "All".
AllDates == <<"A", "l", "l">>

DateOptions(rows) == {AllDates} \cup {DateOf(rows[i].Time) : i \in DOMAIN rows}

Filters(type, symbol, side, date) ==
  [type |-> type, symbol |-> symbol, side |-> side, date |-> date]

\* The selections the four selectboxes can return for these rows.
Selections(rows) ==
  {Filters(t, y, d, e) : t \in TypeOptions(rows),
                         y \in SymbolOptions(rows),
                         d \in SideOptions(rows),
                         e \in DateOptions(rows)}

\* The filters with lines 340-341 left out.
ApplyFilters_no_side(rows, f) ==
  LET KeepType(r) == f.type = "All" \/ r.Type = f.type
      KeepSymbol(r) == f.symbol = "All" \/ r.Symbol = f.symbol
      KeepDate(r) == f.date = AllDates \/ DateOf(r.Time) = f.date
  IN  SelectSeq(SelectSeq(SelectSeq(rows, KeepType), KeepSymbol), KeepDate)

\* Lines 336-343.
ApplyFilters(rows, f) ==
  LET KeepType(r) == f.type = "All" \/ r.Type = f.type
      KeepSymbol(r) == f.symbol = "All" \/ r.Symbol = f.symbol
      KeepSide(r) == f.side = "All" \/ r.Side = f.side
      KeepDate(r) == f.date = AllDates \/ DateOf(r.Time) = f.date
  IN  SelectSeq(SelectSeq(SelectSeq(SelectSeq(rows, KeepType), KeepSymbol),
                          KeepSide), KeepDate)

IndexOrders(n) ==
  {p \in [1..n -> 1..n] : \A i, j \in 1..n : i # j => p[i] # p[j]}

\* sort_values("Time", ascending=False): an order of the rows with the
\* times descending; rows of equal time in any order.
SortByTimeDesc(rows) ==
  {[i \in 1..Len(rows) |-> rows[p[i]]] : p \in
     {q \in IndexOrders(Len(rows)) :
        \A i \in 1..(Len(rows) - 1) : rows[q[i]].Time >= rows[q[i + 1]].Time}}

highlight_activities(val) ==
  IF val.nan THEN ""
  ELSE IF val.v > 0 THEN "color: green"
  ELSE IF val.v < 0 THEN "color: red" ELSE ""

ActivityStyle(row) ==
  [Qty |-> highlight_activities(row.Qty),
   Price |-> highlight_activities(row.Price)]

ShapedActivities(activities_data) ==
  [i \in 1..Len(activities_data.list) |-> ShapeActivity(activities_data.list[i])]

IsActivityList(activities_data) ==
  activities_data.jtype = "list" /\ activities_data.list # <<>>

\* The tables the section can show for a response and a selection.
ActivitiesTables(activities_data, f) ==
  IF IsActivityList(activities_data)
  THEN {Table("table", rows, [i \in 1..Len(rows) |-> ActivityStyle(rows[i])]) :
          rows \in SortByTimeDesc(ApplyFilters(ShapedActivities(activities_data), f))}
  ELSE {Table("warning", <<>>, <<>>)}

(***************************************************************************)
(* What the gateway can answer.                                            *)
(***************************************************************************)
Days == (START_DATE - 1)..(START_DATE + MaxDays)

AccountMap(v) ==
  [k \in {"portfolio_value", "buying_power", "initial_margin",
          "maintenance_margin", "equity"} |->
     CASE k = "portfolio_value" -> Str(v)
       [] k = "buying_power" -> Str(2 * v)
       [] k = "initial_margin" -> Str(500)
       [] k = "maintenance_margin" -> Str(300)
       [] k = "equity" -> Str(v)]

Failures == {TransportError, NonJson(500), JsonMap(500, ErrorMap)}

AccountResponses ==
  Failures \cup {JsonNull(200)} \cup {JsonMap(200, AccountMap(v)) : v \in {1500, 2000, 2500}}

HistoryKeys == {"profit_loss_pct", "profit_loss", "equity"}

\* A history map with the arrays the gateway derives from the daily ratios.
HistoryMap(pct, base) ==
  [k \in {"timestamp"} \cup HistoryKeys |->
     CASE k = "timestamp" -> [i \in 1..Len(pct) |-> 1745812800 + i * 86400]
       [] k = "profit_loss_pct" -> pct
       [] k = "profit_loss" -> [i \in 1..Len(pct) |-> pct[i] * 20]
       [] k = "equity" -> [i \in 1..Len(pct) |-> base + pct[i] * 20]]

Restrict(m, keys) == [k \in keys |-> m[k]]

\* Maps without a timestamp, or with an empty one; the other keys absent or
\* holding an array of any length.
NoDataMaps ==
  {[k \in keys |-> IF k = "timestamp" THEN <<>> ELSE a] :
     keys \in SUBSET ({"timestamp"} \cup HistoryKeys),
     a \in SeqsUpTo({0, 2}, MaxSeries)}

DataMaps ==
  {HistoryMap(<<0, 0>>, 2000), HistoryMap(<<0, 0>>, 0), HistoryMap(<<2>>, 2000),
   HistoryMap(<<2, 2>>, 2000), HistoryMap(<<0, 2, 0, -2, 0, 4>>, 2000),
   Restrict(HistoryMap(<<2, 4>>, 2000), {"timestamp", "profit_loss_pct", "equity"}),
   [HistoryMap(<<2, 4>>, 2000) EXCEPT !["equity"] = <<2040>>]}

HistoryResponses ==
  Failures \cup {JsonNull(200), JsonList(200, <<>>)}
    \cup {JsonMap(200, m) : m \in NoDataMaps \cup DataMaps}

Metrics == {"Equity", "P/L $", "P/L %"}

Position(symbol, qty, entry, cur, plpc) ==
  [symbol |-> symbol,
   qty |-> Str(qty),
   side |-> IF qty < 0 THEN "short" ELSE "long",
   avg_entry_price |-> Str(entry),
   current_price |-> Str(cur),
   market_value |-> Str(qty * cur),
   cost_basis |-> Str(qty * entry),
   unrealized_pl |-> Str(qty * (cur - entry)),
   unrealized_plpc |-> Str(plpc),
   unrealized_intraday_pl |-> Str(qty),
   unrealized_intraday_plpc |-> Str(plpc + 1),
   lastday_price |-> Str(cur - 1),
   change_today |-> Str(plpc - 1)]

PositionPool ==
  {Position(y, q, 100, c, r) :
     y \in {"AAPL", "MSFT"}, q \in {0 - 3, 10}, c \in {90, 100}, r \in {0 - 2, 0, 5}}

PositionLists == SeqsUpTo(PositionPool, MaxPositions)

PositionsResponses ==
  Failures \cup {JsonNull(200), JsonList(200, <<>>),
    JsonList(200, <<Position("AAPL", 10, 100, 90, 0 - 2)>>),
    JsonList(200, <<Position("MSFT", 0 - 3, 100, 100, 0),
                    Position("AAPL", 10, 100, 90, 5)>>)}

Activity(type, symbol, side, qty, date, time) ==
  [activity_type |-> type, symbol |-> symbol, side |-> side,
   qty |-> qty, price |-> IF qty = <<>> THEN <<>> ELSE Str(150),
   transaction_time |-> [date |-> date, time |-> time],
   id |-> Str(date * 10 + time)]

ActivityPool ==
  {Activity("FILL", "AAPL", "buy", Str(5), 20210, 1),
   Activity("FILL", "AAPL", "sell", Str(0 - 5), 20211, 0),
   Activity("FILL", "MSFT", "buy", Str(2), 20210, 1),
   Activity("FILL", "MSFT", "sell", Str(0 - 2), 20210, 2),
   Activity("DIV", "AAPL", NULL, <<>>, 20211, 0),
   Activity("CSD", NULL, NULL, <<>>, 20209, 3)}

ActivityLists == SeqsUpTo(ActivityPool, MaxActivities)

ActivitiesResponses ==
  Failures \cup {JsonNull(200), JsonList(200, <<>>),
    JsonList(200, <<Activity("FILL", "AAPL", "buy", Str(5), 20210, 1),
                    Activity("FILL", "MSFT", "sell", Str(0 - 2), 20210, 2)>>)}

(***************************************************************************)
(* The state of a render.                                                  *)
(***************************************************************************)
VARIABLES
  pc,               \* where the script is
  renders,          \* the runs of the script so far
  today,            \* date.today()
  log,              \* the GETs this run has issued, in order
  inflight,         \* the GETs issued and not yet returned
  resp,             \* the response each fetch of this run got
  raised,           \* the uncaught exception and the statement it left
  history_msg,      \* what fetch_portfolio_history showed
  history_df,
  summary,          \* the summary tiles
  chart,            \* the history chart, or its info line
  sharpe,           \* the Sharpe tile, or its warning
  positions_view,   \* the positions table, or its warning
  activities_view,  \* the activities table, or its warning
  filters           \* the selections of the four activity selectboxes

vars ==
  <<pc, renders, today, log, inflight, resp, raised, history_msg, history_df,
    summary, chart, sharpe, positions_view, activities_view, filters>>

Endpoints == {"account", "history", "positions", "activities"}

\* The positions fetched before the history.
CallOrder_positions_first == <<"account", "positions", "history", "activities">>

\* The order of the fetch calls in the script: lines 83, 161, 247, 307.
CallOrder == <<"account", "history", "positions", "activities">>

Unbound == Resp("unbound", 0, "nonjson", <<>>, <<>>)
NotRaised == [exc |-> "none", at |-> "none"]
Raise(exc, at) == [exc |-> exc, at |-> at]
NoSummary == [kind |-> "unset"]
NoChart == Chart("unset", <<>>, "none", Zero, Zero)
NoTile == Tile("none", "unset", RatioZero, "none")
NoTable == Table("unset", <<>>, <<>>)
NoFilters == Filters("All", "All", "All", AllDates)

\* A fresh run of the script: nothing on the page, no exception, and the
\* fetches' names bound as r says.
Fresh(r) ==
  /\ log = <<>>
  /\ inflight = {}
  /\ resp = r
  /\ raised = NotRaised
  /\ history_msg = "none"
  /\ history_df = EmptyDataFrame
  /\ summary = NoSummary
  /\ chart = NoChart
  /\ sharpe = NoTile
  /\ positions_view = NoTable
  /\ activities_view = NoTable
  /\ filters = NoFilters

AllUnbound == [e \in Endpoints |-> Unbound]

Init ==
  /\ pc = "idle"
  /\ renders = 0
  /\ today = START_DATE
  /\ Fresh(AllUnbound)

(***************************************************************************)
(* A page view or a widget change runs the script from its first line      *)
(* (lines 12-38).                                                          *)
(***************************************************************************)
StartRender ==
  /\ pc \in {"idle", "done", "aborted"}
  /\ renders < MaxRenders
  /\ renders' = renders + 1
  /\ today' \in Days
  /\ pc' = "account_call"
  /\ log' = <<>>
  /\ inflight' = {}
  /\ resp' = AllUnbound
  /\ raised' = NotRaised
  /\ history_msg' = "none"
  /\ history_df' = EmptyDataFrame
  /\ summary' = NoSummary
  /\ chart' = NoChart
  /\ sharpe' = NoTile
  /\ positions_view' = NoTable
  /\ activities_view' = NoTable
  /\ filters' = NoFilters

\* requests.get sends the request and blocks.
Issue(e, at, wait) ==
  /\ pc = at
  /\ pc' = wait
  /\ log' = Append(log, e)
  /\ inflight' = inflight \cup {e}
  /\ UNCHANGED <<renders, today, resp, raised, history_msg, history_df, summary,
                 chart, sharpe, positions_view, activities_view, filters>>

\* requests.get returns or raises.
Returned(e, wait, r) ==
  /\ pc = wait
  /\ inflight' = inflight \ {e}
  /\ resp' = [resp EXCEPT ![e] = r]
  /\ UNCHANGED <<renders, today, log>>

Abort(exc, at) ==
  /\ pc' = "aborted"
  /\ raised' = Raise(exc, at)

Goto(next) ==
  /\ pc' = next
  /\ raised' = raised

CallAccount == Issue(CallOrder[1], "account_call", "account_wait")

\* Lines 83-157.
ReturnAccount ==
  \E r \in AccountResponses :
    /\ Returned("account", "account_wait", r)
    /\ IF FetchRaises(r) # "none"
       THEN Abort(FetchRaises(r), "fetch_account_info") /\ summary' = summary
       ELSE IF r.jtype # "map"
       THEN Abort("AttributeError", "account_data.get") /\ summary' = summary
       ELSE /\ summary' = AccountSummary(r.map, DAYS_RUNNING(today))
            /\ Goto("history_call")
    /\ UNCHANGED <<history_msg, history_df, chart, sharpe, positions_view,
                   activities_view, filters>>

CallHistory == Issue(CallOrder[2], "history_call", "history_wait")

\* Lines 161-245.
ReturnHistory ==
  \E r \in HistoryResponses, selected_metric \in Metrics :
    LET f == fetch_portfolio_history(r)
        tile == SharpeTile(f.df)
    IN  /\ Returned("history", "history_wait", r)
        /\ history_msg' = f.msg
        /\ history_df' = f.df
        /\ IF f.raised # "none"
           THEN /\ Abort(f.raised, "fetch_portfolio_history")
                /\ UNCHANGED <<chart, sharpe>>
           ELSE IF "P/L %" \notin f.df.columns
           THEN /\ Abort("KeyError", "cleaned_history")
                /\ UNCHANGED <<chart, sharpe>>
           ELSE /\ chart' = HistoryChart(f.df, selected_metric)
                /\ sharpe' = tile
                /\ IF tile.raised # "none"
                   THEN Abort(tile.raised, "sharpe_ratio")
                   ELSE Goto("positions_call")
        /\ UNCHANGED <<summary, positions_view, activities_view, filters>>

CallPositions == Issue(CallOrder[3], "positions_call", "positions_wait")

\* Lines 247-302.
ReturnPositions ==
  \E r \in PositionsResponses :
    /\ Returned("positions", "positions_wait", r)
    /\ IF FetchRaises(r) # "none"
       THEN Abort(FetchRaises(r), "fetch_positions")
            /\ positions_view' = positions_view
       ELSE /\ positions_view' = PositionsTable(r)
            /\ Goto("activities_call")
    /\ UNCHANGED <<history_msg, history_df, summary, chart, sharpe,
                   activities_view, filters>>

CallActivities == Issue(CallOrder[4], "activities_call", "activities_wait")

SelectionsFor(activities_data) ==
  IF IsActivityList(activities_data)
  THEN Selections(ShapedActivities(activities_data))
  ELSE {NoFilters}

\* Lines 306-385.
ReturnActivities ==
  \E r \in ActivitiesResponses :
    /\ Returned("activities", "activities_wait", r)
    /\ IF FetchRaises(r) # "none"
       THEN /\ Abort(FetchRaises(r), "fetch_account_activities")
            /\ UNCHANGED <<activities_view, filters>>
       ELSE /\ \E f \in SelectionsFor(r) :
                 /\ filters' = f
                 /\ activities_view' \in ActivitiesTables(r, f)
            /\ Goto("done")
    /\ UNCHANGED <<history_msg, history_df, summary, chart, sharpe,
                   positions_view>>

Next ==
  \/ StartRender
  \/ CallAccount
  \/ ReturnAccount
  \/ CallHistory
  \/ ReturnHistory
  \/ CallPositions
  \/ ReturnPositions
  \/ CallActivities
  \/ ReturnActivities

Spec == Init /\ [][Next]_vars

(***************************************************************************)
(* The positions shaping alone, over every list of the pool.               *)
(***************************************************************************)
InitPositions ==
  /\ pc = "shape_positions"
  /\ renders = 0
  /\ today = START_DATE
  /\ \E l \in PositionLists :
       Fresh([AllUnbound EXCEPT !["positions"] = JsonList(200, l)])

ShapePositions ==
  /\ pc = "shape_positions"
  /\ pc' = "shaped_positions"
  /\ positions_view' = PositionsTable(resp["positions"])
  /\ UNCHANGED <<renders, today, log, inflight, resp, raised, history_msg,
                 history_df, summary, chart, sharpe, activities_view, filters>>

SpecPositions == InitPositions /\ [][ShapePositions]_vars

(***************************************************************************)
(* The activity filter alone, over every list of the pool and every        *)
(* selection the selectboxes offer for it.                                 *)
(***************************************************************************)
InitActivities ==
  /\ pc = "filter_activities"
  /\ renders = 0
  /\ today = START_DATE
  /\ \E l \in ActivityLists :
       Fresh([AllUnbound EXCEPT !["activities"] = JsonList(200, l)])

FilterActivities ==
  /\ pc = "filter_activities"
  /\ pc' = "filtered_activities"
  /\ \E f \in SelectionsFor(resp["activities"]) :
       /\ filters' = f
       /\ activities_view' \in ActivitiesTables(resp["activities"], f)
  /\ UNCHANGED <<renders, today, log, inflight, resp, raised, history_msg,
                 history_df, summary, chart, sharpe, positions_view>>

SpecActivities == InitActivities /\ [][FilterActivities]_vars

(***************************************************************************)
(* Properties.                                                             *)
(***************************************************************************)
IsFailure(r) == r.transport = "error" \/ r.status = 500 \/ r.jtype = "nonjson"

Succeeded(r) == r.transport = "ok" /\ r.status = 200 /\ r.jtype \in {"map", "list"}

HasReturned(e) == resp[e] # Unbound

StatementsOf(e) ==
  CASE e = "account" -> {"fetch_account_info", "account_data.get"}
    [] e = "history" -> {"fetch_portfolio_history", "cleaned_history", "sharpe_ratio"}
    [] e = "positions" -> {"fetch_positions"}
    [] e = "activities" -> {"fetch_account_activities"}

\* The section of e shows a warning or no-data state.
ShowsNoData(e) ==
  CASE e = "account" -> summary.kind = "warning"
    [] e = "history" -> /\ history_msg \in {"warning", "error"}
                        /\ chart.kind = "info"
                        /\ sharpe.kind = "warning"
    [] e = "positions" -> positions_view.kind = "warning"
    [] e = "activities" -> activities_view.kind = "warning"

\* The section of e is on the page, made from this render's response.
RenderedFromOwn(e) ==
  CASE e = "account" ->
         summary = AccountSummary(resp[e].map, DAYS_RUNNING(today))
    [] e = "history" ->
         /\ chart.kind \in {"chart", "info"}
         /\ sharpe.kind \in {"tile", "warning"}
         /\ history_df = fetch_portfolio_history(resp[e]).df
    [] e = "positions" -> positions_view = PositionsTable(resp[e])
    [] e = "activities" -> activities_view \in ActivitiesTables(resp[e], filters)

\* C1: when exactly one of the four gateway calls fails (transport error,
\* HTTP 500 or a non-JSON body) and the others succeed, the render does not
\* abort; it ends with the failed section in a warning state and the other
\* three sections rendered from their own responses.
C1_FailureIsolated ==
  \A e \in Endpoints :
    (/\ IsFailure(resp[e])
     /\ \A o \in Endpoints \ {e} : ~HasReturned(o) \/ Succeeded(resp[o]))
      => /\ pc # "aborted"
         /\ pc = "done" =>
              /\ ShowsNoData(e)
              /\ \A o \in Endpoints \ {e} : RenderedFromOwn(o)

EmptyValid(e) ==
  /\ Succeeded(resp[e])
  /\ CASE e = "account" -> FALSE
       [] e = "history" -> /\ resp[e].jtype = "map"
                           /\ \/ "timestamp" \notin DOMAIN resp[e].map
                              \/ Len(resp[e].map["timestamp"]) = 0
       [] e = "positions" -> resp[e].jtype = "list" /\ Len(resp[e].list) = 0
       [] e = "activities" -> resp[e].jtype = "list" /\ Len(resp[e].list) = 0

\* C2: an empty but valid response (history without a timestamp array or
\* with an empty one, an empty positions list, an empty activities list)
\* raises nothing: its section shows a no-data message and the render goes
\* on to the later sections.
C2_EmptyValidShowsNoData ==
  \A e \in Endpoints :
    EmptyValid(e) => /\ raised.at \notin StatementsOf(e)
                     /\ ShowsNoData(e)

AllZero(rows) == \A i \in DOMAIN rows : rows[i].PL_pct = 0

RatioReached == pc \in {"positions_call", "positions_wait", "activities_call",
                        "activities_wait", "done"}
                  \/ (pc = "aborted" /\ raised.at \notin
                        {"fetch_account_info", "account_data.get",
                         "fetch_portfolio_history", "cleaned_history"})

\* C3: for a non-empty daily percent series whose entries are all zero (and
\* for the empty series) the risk-ratio computation finishes and yields
\* exactly 0; it does not raise.
C3_ZeroSeriesRatioZero ==
  (RatioReached /\ AllZero(history_df.rows))
    => /\ raised.at # "sharpe_ratio"
       /\ sharpe.ratio = RatioZero
       /\ ~sharpe.ratio.nan

NonZeroEntries(rows) ==
  LET idx == {i \in DOMAIN rows : rows[i].PL_pct # 0}
  IN  [pick \in idx |-> rows[pick].PL_pct]

\* C4: for a non-empty nonzero-filtered series the risk ratio is mean/stddev
\* of exactly the entries that are not zero, and exactly 0 when their
\* standard deviation is 0, the single-entry series and the series of equal
\* entries included.
C4_RatioOverNonZero ==
  LET nz == NonZeroEntries(history_df.rows)
      n == Cardinality(DOMAIN nz)
      S == SumSeq([i \in 1..Len(history_df.rows) |-> history_df.rows[i].PL_pct])
      Q == SumSq([i \in 1..Len(history_df.rows) |-> history_df.rows[i].PL_pct])
  IN  (RatioReached /\ n > 0)
        => /\ raised.at # "sharpe_ratio"
           /\ ~sharpe.ratio.nan
           /\ IF \A i, j \in DOMAIN nz : nz[i] = nz[j]
              THEN sharpe.ratio = RatioZero
              ELSE /\ sharpe.ratio.sign = (IF S > 0 THEN 1 ELSE IF S < 0 THEN 0 - 1 ELSE 0)
                   /\ sharpe.ratio.sq.num * n * (n * Q - S * S)
                        = S * S * (n - 1) * sharpe.ratio.sq.den

\* C5: for a parsed history response whose timestamp key is missing or whose
\* timestamp array is empty, fetch_portfolio_history returns the empty frame
\* and raises nothing, whatever the other keys hold.
C5_NoTimestampEmptyFrame ==
  (/\ resp["history"].jtype = "map"
   /\ \/ "timestamp" \notin DOMAIN resp["history"].map
      \/ Len(resp["history"].map["timestamp"]) = 0)
    => /\ raised.at # "fetch_portfolio_history"
       /\ history_df.rows = <<>>
       /\ history_df.columns = {}
       /\ history_msg = "warning"

C5_Witness ==
  /\ resp["history"].jtype = "map"
  /\ DOMAIN resp["history"].map = {"timestamp", "profit_loss", "equity"}
  /\ resp["history"].map["timestamp"] = <<>>
  /\ Len(resp["history"].map["equity"]) = 2
  /\ history_df = EmptyDataFrame
  /\ history_msg = "warning"

\* C6: avg_pl_dollar is pl_dollar / D when the elapsed days D are positive
\* and exactly 0 otherwise (D = 0 and D < 0); avg_pl_percent likewise.
C6_AverageGuard ==
  summary.kind = "tiles" =>
    LET D == today - START_DATE
    IN  IF D > 0
        THEN /\ summary.avg_pl_dollar.num * D
                  = summary.pl_dollar * summary.avg_pl_dollar.den
             /\ summary.avg_pl_percent.num * D * summary.pl_percent.den
                  = summary.pl_percent.num * summary.avg_pl_percent.den
        ELSE /\ summary.avg_pl_dollar = Zero
             /\ summary.avg_pl_percent = Zero

ThreeWay(color, sign) ==
  /\ sign > 0 => color = "green"
  /\ sign < 0 => color = "red"
  /\ sign = 0 => color \notin {"green", "red"}

\* C9: every colour of the summary is three-way: favorable for a positive
\* value, unfavorable for a negative one, and a third, neutral class at
\* exactly zero, for the Current Value, the P/L and the Avg Daily tiles.
C9_ThreeWayColours ==
  summary.kind = "tiles" =>
    /\ ThreeWay(summary.value_color,
                summary.latest_equity - STARTING_PORTFOLIO_VALUE)
    /\ ThreeWay(summary.pl_color, summary.pl_dollar)
    /\ ThreeWay(summary.avg_color, summary.avg_pl_dollar.num)

\* C7: the shaped positions table has one row per position of the list, in
\* the list's order; the three percent fields are 100 times their inputs,
\* every other numeric field is its input as a number.
C7_PositionsShaped ==
  pc = "shaped_positions" =>
    LET l == resp["positions"].list
        rows == positions_view.rows
    IN  /\ Len(rows) = Len(l)
        /\ l # <<>> => positions_view.kind = "table"
        /\ \A i \in 1..Len(l) :
             /\ rows[i].Symbol = l[i].symbol
             /\ rows[i].Side = l[i].side
             /\ rows[i].PL_pct = 100 * Float(l[i].unrealized_plpc)
             /\ rows[i].Intraday_pct = 100 * Float(l[i].unrealized_intraday_plpc)
             /\ rows[i].ChgToday = 100 * Float(l[i].change_today)
             /\ rows[i].Qty = Float(l[i].qty)
             /\ rows[i].Entry = Float(l[i].avg_entry_price)
             /\ rows[i].Cur = Float(l[i].current_price)
             /\ rows[i].MarketVal = Float(l[i].market_value)
             /\ rows[i].CostBasis = Float(l[i].cost_basis)
             /\ rows[i].PL_usd = Float(l[i].unrealized_pl)
             /\ rows[i].Intraday_usd = Float(l[i].unrealized_intraday_pl)
             /\ rows[i].LastDay = Float(l[i].lastday_price)

C7_Witness ==
  /\ pc = "shaped_positions"
  /\ Len(positions_view.rows) = 2
  /\ positions_view.rows[1].Symbol = "MSFT"
  /\ positions_view.rows[2].Symbol = "AAPL"
  /\ positions_view.rows[1].PL_pct = 0 - 200
  /\ positions_view.rows[1].Intraday_pct = 0 - 100
  /\ positions_view.rows[2].ChgToday = 400
  /\ positions_view.rows[2].Qty = 0 - 3

Matches(a, f) ==
  /\ f.type = "All" \/ a.activity_type = f.type
  /\ f.symbol = "All" \/ a.symbol = f.symbol
  /\ f.side = "All" \/ a.side = f.side
  /\ f.date = AllDates \/ Str(a.transaction_time.date) = f.date

Count(rows, r) == Cardinality({i \in DOMAIN rows : rows[i] = r})

\* C8: for every activity list and every selection of the four filters, the
\* displayed rows are exactly the activities that match every filter that
\* is not "All", ordered by transaction time descending.
C8_FilteredAndSorted ==
  pc = "filtered_activities" =>
    LET l == resp["activities"].list
        rows == activities_view.rows
        matching == SelectSeq(l, LAMBDA a : Matches(a, filters))
        shaped == [i \in 1..Len(matching) |-> ShapeActivity(matching[i])]
    IN  /\ Len(rows) = Len(matching)
        /\ \A i \in DOMAIN rows : Count(rows, rows[i]) = Count(shaped, rows[i])
        /\ \A i, j \in DOMAIN rows :
             i < j => rows[i].Time >= rows[j].Time

C8_Witness ==
  /\ pc = "filtered_activities"
  /\ Len(resp["activities"].list) = 3
  /\ filters = Filters("FILL", "All", "buy", AllDates)
  /\ Len(activities_view.rows) = 2
  /\ activities_view.rows[1].Symbol = "AAPL"
  /\ activities_view.rows[2].Symbol = "MSFT"
  /\ activities_view.rows[1].Time = activities_view.rows[2].Time

IsPrefix(s, t) == Len(s) <= Len(t) /\ \A i \in 1..Len(s) : s[i] = t[i]

\* C10: a render issues its GETs one at a time in the order account,
\* history, positions, activities, each returned before the next is issued;
\* a render that completes has issued exactly these four; a repeated render
\* issues them again and uses no response of an earlier render.
C10_FourSequentialGets ==
  /\ IsPrefix(log, <<"account", "history", "positions", "activities">>)
  /\ pc = "done" => Len(log) = 4
  /\ Cardinality(inflight) <= 1
  /\ \A i \in 1..Len(log) :
       IF i = Len(log) /\ inflight # {}
       THEN inflight = {log[i]} /\ ~HasReturned(log[i])
       ELSE HasReturned(log[i])
  /\ \A e \in Endpoints : HasReturned(e) => \E i \in 1..Len(log) : log[i] = e
  /\ summary.kind # "unset" => HasReturned("account")
  /\ (chart.kind # "unset" \/ sharpe.kind # "unset") => HasReturned("history")
  /\ positions_view.kind # "unset" => HasReturned("positions")
  /\ activities_view.kind # "unset" => HasReturned("activities")
  /\ pc = "done" => \A e \in Endpoints : RenderedFromOwn(e)

C10_Witness ==
  /\ renders = 2
  /\ pc = "done"
  /\ log = <<"account", "history", "positions", "activities">>
  /\ activities_view.kind = "table"
  /\ filters.symbol = "MSFT"

=============================================================================
